---------------------------- MODULE Spec2Model ----------------------------
(***************************************************************************)
(* Model of the opportunity extraction pipeline of the Smart Matter        *)
(* Opportunity Detector backend:                                           *)
(*   Mutation.create_communication      (api/graphql/mutations.py)         *)
(*   OpportunityService                 (services/opportunity_service.py)  *)
(*   OpportunityDetector                (services/ai_service.py)           *)
(*   get_db                             (utils/database.py)                *)
(*                                                                         *)
(* Python strings are sequences of one-character strings, JSON values are  *)
(* tagged records, Python floats are an integer or NaN.                    *)
(***************************************************************************)
EXTENDS Integers, Sequences, FiniteSets, TLC

(***************************************************************************)
(* Bounds of the model.                                                    *)
(***************************************************************************)
\* createCommunication requests of the pipeline's specification (Spec)
NumRuns == 1
\* createCommunication requests in flight together (SpecInterleaved)
NumInterleaved == 2
\* longest raw batch built from the two plain candidates (SpecValidator)
MaxBatch == 6
\* text messages the endpoints receive (SpecHeartbeat)
MaxTexts == 2
\* websocket handles, broadcast calls, connect() calls on registered handles
NumHandles == 3
NumBroadcasts == 2
MaxReconnects == 1
\* longest raw batch built from every candidate of the catalogue (SpecValidator)
MaxMixed == 2

(***************************************************************************)
(* Program constants.                                                      *)
(***************************************************************************)
MIN_CONTENT_LEN == 50
MAX_CONTENT_LEN == 10000
MIN_CONFIDENCE == 40
MAX_CONFIDENCE == 100
MAX_TITLE_LEN == 200
STOP_AFTER_ATTEMPT == 3
WAIT_MULTIPLIER == 1
WAIT_MIN == 2
WAIT_MAX == 10
EXP_BASE == 2
\* "Maximum 5 opportunities per communication", the rule the prompt gives the model
MAX_OPPORTUNITIES == 5
NOTIFY_CONFIDENCE == 70
SCALE == 100

\* the requests of the interleaving specification include those of the
\* pipeline's own
Runs == 1..(IF NumRuns > NumInterleaved THEN NumRuns ELSE NumInterleaved)
\* the requests of the pipeline's own specification
SingleRuns == 1..NumRuns

(***************************************************************************)
(* Strings.                                                                *)
(***************************************************************************)
UpperCase == <<"A","B","C","D","E","F","G","H","I","J","K","L","M",
               "N","O","P","Q","R","S","T","U","V","W","X","Y","Z">>
LowerCase == <<"a","b","c","d","e","f","g","h","i","j","k","l","m",
               "n","o","p","q","r","s","t","u","v","w","x","y","z">>
Whitespace == {" ", "\t", "\n"}
Digits == <<"0","1","2","3","4","5","6","7","8","9">>

\* str.lower() on one character
LowerChar(c) ==
    IF \E i \in 1..26 : UpperCase[i] = c
    THEN LowerCase[CHOOSE i \in 1..26 : UpperCase[i] = c]
    ELSE c

\* str.lower()
Lower(s) == [i \in 1..Len(s) |-> LowerChar(s[i])]

\* str.replace(c, "")
RECURSIVE Remove(_, _)
Remove(s, c) ==
    IF s = <<>> THEN <<>>
    ELSE IF Head(s) = c THEN Remove(Tail(s), c)
    ELSE <<Head(s)>> \o Remove(Tail(s), c)

\* str.replace(c, d) for one-character c and d
Replace(s, c, d) == [i \in 1..Len(s) |-> IF s[i] = c THEN d ELSE s[i]]

\* str.strip()
RECURSIVE LStrip(_)
LStrip(s) ==
    IF s # <<>> /\ Head(s) \in Whitespace THEN LStrip(Tail(s)) ELSE s

RECURSIVE RStrip(_)
RStrip(s) ==
    IF s # <<>> /\ s[Len(s)] \in Whitespace
    THEN RStrip(SubSeq(s, 1, Len(s) - 1)) ELSE s

Strip(s) == RStrip(LStrip(s))

\* a title kept whole, without the slice
PrefixWhole(s, n) == s

\* s[:n]
Prefix(s, n) == SubSeq(s, 1, IF Len(s) < n THEN Len(s) ELSE n)

\* the string of n copies of c
Rep(c, n) == [i \in 1..n |-> c]

(***************************************************************************)
(* Python floats: an integer value or NaN.  Every comparison with NaN is   *)
(* false.                                                                  *)
(***************************************************************************)
Float(v) == [nan |-> FALSE, v |-> v]
NaN == [nan |-> TRUE, v |-> 0]
FloatLt(a, b) == ~a.nan /\ ~b.nan /\ a.v < b.v
FloatGt(a, b) == ~a.nan /\ ~b.nan /\ a.v > b.v
FloatGe(a, b) == ~a.nan /\ ~b.nan /\ a.v >= b.v
FloatLe(a, b) == ~a.nan /\ ~b.nan /\ a.v <= b.v

(***************************************************************************)
(* JSON values as json.loads returns them.                                 *)
(***************************************************************************)
JStr(s) == [k |-> "str", s |-> s, n |-> 0]
JNum(n) == [k |-> "num", s |-> <<>>, n |-> n]
JNaN == [k |-> "nan", s |-> <<>>, n |-> 0]
JNull == [k |-> "null", s |-> <<>>, n |-> 0]
\* the key is absent from the object
Missing == [k |-> "missing", s |-> <<>>, n |-> 0]

\* dict.get(key, default)
Get(v, default) == IF v.k = "missing" THEN default ELSE v
\* dict.get(key)
GetOrNone(v) == Get(v, JNull)

\* bool(v)
Truthy(v) ==
    CASE v.k = "str" -> v.s # <<>>
      [] v.k = "num" -> v.n # 0
      [] v.k = "nan" -> TRUE
      [] OTHER -> FALSE


(***************************************************************************)
(* float(x) of Python, on the JSON values the model draws: a number, the   *)
(* NaN literal json.loads accepts, a string of digits, the string "nan"    *)
(* in any case and with surrounding whitespace; any other string raises    *)
(* ValueError and None raises TypeError.                                   *)
(***************************************************************************)
IsDigit(c) == \E i \in 1..10 : Digits[i] = c
DigitValue(c) == (CHOOSE i \in 1..10 : Digits[i] = c) - 1

RECURSIVE DigitsValue(_)
DigitsValue(s) ==
    IF s = <<>> THEN 0
    ELSE 10 * DigitsValue(SubSeq(s, 1, Len(s) - 1)) + DigitValue(s[Len(s)])

PyFloat(v) ==
    CASE v.k = "num" -> [exc |-> "none", f |-> Float(v.n)]
      [] v.k = "nan" -> [exc |-> "none", f |-> NaN]
      [] v.k = "str" ->
           LET t == Strip(v.s) IN
           IF t # <<>> /\ \A i \in 1..Len(t) : IsDigit(t[i])
           THEN [exc |-> "none", f |-> Float(DigitsValue(t))]
           ELSE IF Lower(t) = <<"n","a","n">>
           THEN [exc |-> "none", f |-> NaN]
           ELSE [exc |-> "ValueError", f |-> NaN]
      [] OTHER -> [exc |-> "TypeError", f |-> NaN]

(***************************************************************************)
(* OpportunityDetector._validate_opportunities                             *)
(***************************************************************************)
T_REAL_ESTATE == <<"r","e","a","l","_","e","s","t","a","t","e">>
T_EMPLOYMENT_LAW == <<"e","m","p","l","o","y","m","e","n","t","_","l","a","w">>
T_MA == <<"m","&","a">>
T_IP == <<"i","p">>
T_LITIGATION == <<"l","i","t","i","g","a","t","i","o","n">>

valid_types == {T_REAL_ESTATE, T_EMPLOYMENT_LAW, T_MA, T_IP, T_LITIGATION}

\* opp.get("type", "").lower().replace("&", "").replace(" ", "_"); "ma" -> "m&a"
NormalizeType(s) ==
    LET t == Replace(Remove(Lower(s), "&"), " ", "_")
    IN IF t = <<"m","a">> THEN T_MA ELSE t

NoRecord == [title |-> <<>>, description |-> JNull, type |-> <<>>,
             confidence |-> NaN, extracted_text |-> JNull,
             estimated_value |-> JNull]

Emit(rec) == [res |-> "emit", rec |-> rec]
Skip == [res |-> "skip", rec |-> NoRecord]
\* an exception the loop's except (ValueError, KeyError) does not catch
Raise == [res |-> "raise", rec |-> NoRecord]

\* a range check without its lower bound
ConfidenceRejectedAboveOnly(confidence) ==
    FloatGt(confidence, Float(MAX_CONFIDENCE))

\* the check of the confidence range, ai_service.py line 148
ConfidenceRejected(confidence) ==
    FloatLt(confidence, Float(MIN_CONFIDENCE)) \/ FloatGt(confidence, Float(MAX_CONFIDENCE))

\* the except clause of the loop body: which exceptions it swallows
CaughtInLoop(exc) == exc \in {"ValueError", "KeyError"}

\* one iteration of the loop over the raw candidates
ValidateOne(opp) ==
    IF ~opp.isdict THEN Raise                       \* opp.get: AttributeError
    ELSE
    LET rawType == Get(opp.type, JStr(<<>>)) IN
    IF rawType.k # "str" THEN Raise                 \* .lower(): AttributeError
    ELSE
    LET opp_type == NormalizeType(rawType.s) IN
    IF opp_type \notin valid_types THEN Skip
    ELSE
    LET pf == PyFloat(Get(opp.confidence, JNum(0))) IN
    IF pf.exc # "none"
    THEN (IF CaughtInLoop(pf.exc) THEN Skip ELSE Raise)
    ELSE
    IF ConfidenceRejected(pf.f) THEN Skip
    ELSE
    IF ~Truthy(GetOrNone(opp.title)) \/ ~Truthy(GetOrNone(opp.description)) THEN Skip
    ELSE
    IF opp.title.k # "str"
    THEN (IF CaughtInLoop("TypeError") THEN Skip ELSE Raise)  \* opp["title"][:200]
    ELSE Emit([title |-> Prefix(opp.title.s, MAX_TITLE_LEN),
               description |-> opp.description,
               type |-> opp_type,
               confidence |-> pf.f,
               extracted_text |-> Get(opp.extracted_text, opp.description),
               estimated_value |-> GetOrNone(opp.estimated_value)])

\* the loop: the validated list, or the exception that leaves the function
RECURSIVE ValidateFrom(_, _, _)
ValidateFrom(opportunities, i, validated) ==
    IF i > Len(opportunities) THEN [raised |-> FALSE, validated |-> validated]
    ELSE LET one == ValidateOne(opportunities[i]) IN
         CASE one.res = "raise" -> [raised |-> TRUE, validated |-> <<>>]
           [] one.res = "skip" -> ValidateFrom(opportunities, i + 1, validated)
           [] OTHER -> ValidateFrom(opportunities, i + 1, Append(validated, one.rec))

validate_opportunities(opportunities) == ValidateFrom(opportunities, 1, <<>>)

(***************************************************************************)
(* Raw candidates the model draws: a well-formed candidate and its         *)
(* variations in one field at a time.                                      *)
(***************************************************************************)
Cand(type, confidence, title, description, extracted_text) ==
    [isdict |-> TRUE, type |-> type, confidence |-> confidence, title |-> title,
     description |-> description, extracted_text |-> extracted_text,
     estimated_value |-> Missing]

NotADict == [isdict |-> FALSE, type |-> Missing, confidence |-> Missing,
             title |-> Missing, description |-> Missing,
             extracted_text |-> Missing, estimated_value |-> Missing]

TitleT == JStr(<<"T">>)
DescD == JStr(<<"D">>)
LongTitle == JStr(Rep("a", MAX_TITLE_LEN) \o <<"b">>)

Valid85 == Cand(JStr(T_IP), JNum(85), TitleT, DescD, Missing)
Valid45 == Cand(JStr(T_LITIGATION), JNum(45), TitleT, DescD, Missing)
Low35 == Cand(JStr(T_REAL_ESTATE), JNum(35), TitleT, DescD, Missing)
NullConfidence == Cand(JStr(T_IP), JNull, TitleT, DescD, Missing)
NaNConfidence == Cand(JStr(T_IP), JStr(<<"n","a","n">>), TitleT, DescD, Missing)

RawTypes ==
    { JStr(T_IP), JStr(<<"I","P">>), JStr(T_MA), JStr(<<"M","&","A">>),
      JStr(<<"M"," ","&"," ","A">>), JStr(<<"m","a">>),
      JStr(<<"R","e","a","l"," ","E","s","t","a","t","e">>),
      JStr(T_REAL_ESTATE), JStr(T_EMPLOYMENT_LAW), JStr(T_LITIGATION),
      JStr(<<"t","a","x">>), JStr(<<>>), JNull, JNum(3), Missing }

RawConfidences ==
    { JNum(-1), JNum(0), JNum(35), JNum(39), JNum(40), JNum(69), JNum(70),
      JNum(85), JNum(100), JNum(101), JStr(<<"8","5">>), JStr(<<"3","5">>),
      JStr(<<"a","b","c">>), JStr(<<"n","a","n">>), JStr(<<>>),
      JNaN, JNull, Missing }

RawTitles ==
    { TitleT, JStr(<<>>), JStr(Rep("a", MAX_TITLE_LEN)), LongTitle,
      JNull, Missing, JNum(7) }

RawDescriptions == { DescD, JStr(<<>>), JNull, Missing, JNum(7) }

RawExcerpts == { Missing, JNull, JStr(<<"E">>) }

Candidates ==
    { Cand(t, JNum(85), TitleT, DescD, Missing) : t \in RawTypes } \cup
    { Cand(JStr(T_IP), c, TitleT, DescD, Missing) : c \in RawConfidences } \cup
    { Cand(JStr(T_IP), JNum(85), t, DescD, Missing) : t \in RawTitles } \cup
    { Cand(JStr(T_IP), JNum(85), TitleT, d, Missing) : d \in RawDescriptions } \cup
    { Cand(JStr(T_IP), JNum(85), TitleT, DescD, e) : e \in RawExcerpts } \cup
    { Valid45, Low35, NotADict }

SeqsUpTo(S, n) == UNION { [1..m -> S] : m \in 0..n }

\* the raw batches of the validator's own specification
RawBatches == SeqsUpTo({Valid85, Low35}, MaxBatch) \cup SeqsUpTo(Candidates, MaxMixed)


(***************************************************************************)
(* The retry policy of analyze_communication:                              *)
(*   @retry(stop=stop_after_attempt(3),                                    *)
(*          wait=wait_exponential(multiplier=1, min=2, max=10))            *)
(* tenacity retries on every exception, computes the wait after attempt n  *)
(* as max(max(0, min), min(multiplier * 2 ** (n - 1), max)), and, reraise  *)
(* being left at its default, raises RetryError once the stop condition    *)
(* holds.                                                                  *)
(***************************************************************************)
RECURSIVE Pow(_, _)
Pow(b, e) == IF e = 0 THEN 1 ELSE b * Pow(b, e - 1)

Min(a, b) == IF a < b THEN a ELSE b
Max(a, b) == IF a > b THEN a ELSE b

\* the exponent taken as the attempt number itself
WaitExponentialNoOffset(attempt_number) ==
    Max(Max(0, WAIT_MIN), Min(WAIT_MULTIPLIER * Pow(EXP_BASE, attempt_number), WAIT_MAX))

\* wait_exponential.__call__ for the attempt that just failed
WaitExponential(attempt_number) ==
    Max(Max(0, WAIT_MIN), Min(WAIT_MULTIPLIER * Pow(EXP_BASE, attempt_number - 1), WAIT_MAX))

\* a stop condition that is one attempt late
StopAfterAttemptLate(attempt_number) == attempt_number > STOP_AFTER_ATTEMPT

\* stop_after_attempt(3)
StopAfterAttempt(attempt_number) == attempt_number >= STOP_AFTER_ATTEMPT

\* what tenacity raises to the caller when it stops
RetryExhausted == "RetryError"

(***************************************************************************)
(* Requests, responses and rows.                                           *)
(***************************************************************************)
ContentLens == {MIN_CONTENT_LEN - 1, MIN_CONTENT_LEN, MAX_CONTENT_LEN, MAX_CONTENT_LEN + 1}
ClientNames == {<<>>, <<" ">>, <<"A">>}
ApiKeys == {"valid", "missing", "your_openai_key_here"}

NoRequest == [content_len |-> 0, client_name |-> <<>>]

\* the third check without its strip(): a blank client name passes
InputRejectedNoStrip(content_len, client_name) ==
    \/ content_len < MIN_CONTENT_LEN
    \/ content_len > MAX_CONTENT_LEN
    \/ client_name = <<>>

\* the three checks at the head of Mutation.create_communication
InputRejected(content_len, client_name) ==
    \/ content_len < MIN_CONTENT_LEN
    \/ content_len > MAX_CONTENT_LEN
    \/ client_name = <<>> \/ Len(Strip(client_name)) = 0

\* OpportunityDetector.__init__: the credential check
KeyRejected(key) == key = "missing" \/ key = "your_openai_key_here"

\* outcomes of one call of chat.completions.create, with json.loads of its text
ApiError == [kind |-> "api_error", opportunities |-> <<>>]
Malformed == [kind |-> "malformed", opportunities |-> <<>>]
Json(batch) == [kind |-> "json", opportunities |-> batch]

Responses ==
    { ApiError, Malformed, Json(<<>>), Json(<<Valid85>>), Json(<<Low35>>),
      Json(<<NaNConfidence>>), Json(<<Valid85, NullConfidence, Valid45>>),
      Json([i \in 1..MAX_OPPORTUNITIES |-> Valid85]),
      Json([i \in 1..(MAX_OPPORTUNITIES + 1) |-> Valid85]) }

\* the body of analyze_communication after the call returned: the validated
\* list, or the AIServiceError one of its two except clauses raises
AttemptResult(resp) ==
    IF resp.kind = "api_error"
    THEN [exc |-> "AIServiceError", validated |-> <<>>]
    ELSE IF resp.kind = "malformed"
    THEN [exc |-> "AIServiceError", validated |-> <<>>]
    ELSE LET v == validate_opportunities(resp.opportunities) IN
         IF v.raised THEN [exc |-> "AIServiceError", validated |-> <<>>]
         ELSE [exc |-> "none", validated |-> v.validated]

\* Communication(content=..., client_name=..., source_type=...); its id is the run's
CommRow(r, req) == [id |-> r, content_len |-> req.content_len, client_name |-> req.client_name]

\* TYPE_MAPPING of opportunity_service.py
TYPE_MAPPING(t) ==
    CASE t = T_REAL_ESTATE -> "REAL_ESTATE"
      [] t = T_EMPLOYMENT_LAW -> "EMPLOYMENT_LAW"
      [] t = T_MA -> "MERGERS_AND_ACQUISITIONS"
      [] t = T_IP -> "INTELLECTUAL_PROPERTY"
      [] t = T_LITIGATION -> "LITIGATION"

\* Opportunity(communication_id=communication.id, ...), the i-th of its run
Opportunity(r, i, opp_data) ==
    [communication_id |-> r, pos |-> i,
     title |-> opp_data.title,
     description |-> opp_data.description,
     opportunity_type |-> TYPE_MAPPING(opp_data.type),
     confidence |-> opp_data.confidence,
     estimated_value |-> opp_data.estimated_value,
     extracted_text |-> opp_data.extracted_text,
     status |-> "NEW"]

\* the loop over extracted_opps that builds and adds the opportunities
Opportunities(r, extracted_opps) ==
    [i \in 1..Len(extracted_opps) |-> Opportunity(r, i, extracted_opps[i])]

Range(f) == { f[i] : i \in DOMAIN f }

NotRun == [raised |-> FALSE, validated |-> <<>>]

\* an Optional argument: None, or a value
Absent == [given |-> FALSE]
Given(v) == [given |-> TRUE, v |-> v]

RECURSIVE SumUpTo(_, _)
RECURSIVE DiscardAll(_, _)

(***************************************************************************)
(* websocket/manager.py: the registry.  active_connections is modelled by   *)
(* the number of entries it holds for each handle, so that a container      *)
(* which kept duplicates would be told apart from the set the code uses.    *)
(***************************************************************************)
Handles == 1..NumHandles
Broadcasts == 1..NumBroadcasts
NoHandle == 0

\* set()
EmptySet == [h \in Handles |-> 0]

Members(conns) == { h \in Handles : conns[h] > 0 }

\* a list's append where the set's add is
ListAppend(conns, ws) == [conns EXCEPT ![ws] = @ + 1]

\* set.add
SetAdd(conns, ws) == [conns EXCEPT ![ws] = IF @ = 0 THEN 1 ELSE @]

\* set.discard
SetDiscard(conns, ws) == [conns EXCEPT ![ws] = 0]

\* set.remove raises KeyError on an element that is absent
RemoveRaises(conns, ws) == conns[ws] = 0

\* set.discard raises on no element
DiscardRaises(conns, ws) == FALSE

\* set.copy
SetCopy(conns) == conns

SumUpTo(conns, n) == IF n = 0 THEN 0 ELSE conns[n] + SumUpTo(conns, n - 1)

\* len(active_connections), as health_check reports it
SetLen(conns) == SumUpTo(conns, NumHandles)

\* the loop variable takes an entry of the copy without giving it up
TakeKeeps(ents, c) == ents

\* the for statement hands each entry of the copy to the body once
Take(ents, c) == [ents EXCEPT ![c] = @ - 1]

\* a cleanup that empties the registry when a send has failed
DiscardAllClears(conns, failed) == IF failed = {} THEN conns ELSE EmptySet

\* `for conn in disconnected: self.disconnect(conn)`
DiscardAll(conns, failed) ==
    IF failed = {} THEN conns
    ELSE LET conn == CHOOSE x \in failed : TRUE
         IN DiscardAll(SetDiscard(conns, conn), failed \ {conn})

\* what send_bytes can raise
SendErrors == {"WebSocketDisconnect", "RuntimeError"}

\* a broadcast with the first except clause only
CatchesDisconnectOnly(exc) == exc = "WebSocketDisconnect"

\* the except clauses of broadcast: WebSocketDisconnect, then Exception
BroadcastCatches(exc) == exc = "WebSocketDisconnect" \/ exc \in SendErrors

VARIABLES
    api_key,        \* the configured OPENAI_API_KEY
    pc,             \* where each request stands
    request,        \* the input of each request
    sessionOpen,    \* the request holds a database session
    sessionsOpened, \* sessions the request has acquired
    storageOps,     \* session operations the request has issued
    pendingComm,    \* "none", "added" or "flushed": the communication in the session
    pendingOpps,    \* opportunities added to the session, not committed
    attempt,        \* tenacity's attempt_number
    calls,          \* outbound inference calls issued
    waits,          \* the waits slept between attempts
    analyzeError,   \* the exception analyze_communication raised to the service
    extracted,      \* the list analyze_communication returned
    refreshed,      \* refresh calls that have returned
    serviceResult,  \* "none", "returned" or "raised"
    failedAt,       \* the step whose failure ended the request
    outcome,        \* what the mutation answers
    dbComms,        \* committed communication rows
    dbOpps,         \* committed opportunity rows
    rawOpps,        \* data["opportunities"] of the response that was parsed
    vRaw,           \* validator specification: the raw batch
    vDone,          \* validator specification: the validator has run
    vOut,           \* validator specification: its result
    active_connections, \* ConnectionManager.active_connections, entries per handle
    endpoint,       \* where websocket_endpoint stands for each handle
    connecting,     \* a connect(handle) call is suspended in accept()
    connects,       \* connect(handle) calls that have returned
    bpc,            \* where each broadcast call stands
    snapshot,       \* the handles registered when the broadcast was called
    todo,           \* entries of the copy the loop has not reached
    cur,            \* the connection whose send_bytes is awaited
    disconnected,   \* the broadcast's local set of failed connections
    sends,          \* send_bytes calls of each broadcast on each handle
    delivered,      \* handles whose send_bytes of the broadcast returned
    failedSend,     \* handles on which some send_bytes has raised
    npc,            \* notification specification: the step reached
    nOpp,           \* notification specification: the opportunity
    nClient,        \* notification specification: the client name
    nNow,           \* notification specification: utcnow() in seconds
    nMessage,       \* what create_notification_message returned
    nWire,          \* what create_opportunity_notification returned
    nParsed,        \* what parse_opportunity_notification returned
    qpc,            \* where the query stands
    qArgs,          \* its arguments
    qRes,           \* what its statements have returned so far
    received,       \* text messages each endpoint has received
    pings,          \* "ping" messages each endpoint has received
    pongs,          \* send_text("pong") calls on each socket
    ponging         \* the endpoint is suspended in send_text

pipelineVars == <<api_key, pc, request, sessionOpen, sessionsOpened, storageOps,
                  pendingComm, pendingOpps, attempt, calls, waits, analyzeError,
                  extracted, refreshed, serviceResult, failedAt, outcome, dbComms,
                  dbOpps, rawOpps>>
validatorVars == <<vRaw, vDone, vOut>>
registryVars == <<active_connections, endpoint, connecting, connects, bpc,
                  snapshot, todo, cur, disconnected, sends, delivered,
                  failedSend>>
notifyVars == <<npc, nOpp, nClient, nNow, nMessage, nWire, nParsed>>
queryVars == <<qpc, qArgs, qRes>>
heartbeatVars == <<received, pings, pongs, ponging>>
otherVars == <<validatorVars, registryVars, notifyVars, queryVars, heartbeatVars>>
vars == <<pipelineVars, validatorVars, registryVars, notifyVars, queryVars, heartbeatVars>>


NoFailure == [step |-> "none", k |-> 0]
FailedAt(step, k) == [step |-> step, k |-> k]

PipelineInit ==
    /\ api_key \in ApiKeys
    /\ pc = [r \in Runs |-> "received"]
    /\ request = [r \in Runs |-> NoRequest]
    /\ sessionOpen = [r \in Runs |-> FALSE]
    /\ sessionsOpened = [r \in Runs |-> 0]
    /\ storageOps = [r \in Runs |-> 0]
    /\ pendingComm = [r \in Runs |-> "none"]
    /\ pendingOpps = [r \in Runs |-> <<>>]
    /\ attempt = [r \in Runs |-> 0]
    /\ calls = [r \in Runs |-> 0]
    /\ waits = [r \in Runs |-> <<>>]
    /\ analyzeError = [r \in Runs |-> "none"]
    /\ extracted = [r \in Runs |-> <<>>]
    /\ refreshed = [r \in Runs |-> 0]
    /\ serviceResult = [r \in Runs |-> "none"]
    /\ failedAt = [r \in Runs |-> NoFailure]
    /\ outcome = [r \in Runs |-> "none"]
    /\ dbComms = {}
    /\ dbOpps = {}
    /\ rawOpps = [r \in Runs |-> <<>>]

ValidatorIdle ==
    /\ vRaw = <<>>
    /\ vDone = FALSE
    /\ vOut = NotRun

NotifyIdle ==
    /\ npc = "idle"
    /\ nOpp = [id |-> 0, title |-> <<>>, description |-> <<>>,
               opportunity_type |-> "REAL_ESTATE", confidence |-> 0]
    /\ nClient = <<>>
    /\ nNow = 0
    /\ nMessage = [kind |-> "None", data |-> <<>>]
    /\ nWire = <<>>
    /\ nParsed = <<>>

RegistryIdle ==
    /\ active_connections = EmptySet
    /\ endpoint = [h \in Handles |-> "new"]
    /\ connecting = [h \in Handles |-> FALSE]
    /\ connects = [h \in Handles |-> 0]
    /\ bpc = [b \in Broadcasts |-> "idle"]
    /\ snapshot = [b \in Broadcasts |-> {}]
    /\ todo = [b \in Broadcasts |-> EmptySet]
    /\ cur = [b \in Broadcasts |-> NoHandle]
    /\ disconnected = [b \in Broadcasts |-> {}]
    /\ sends = [b \in Broadcasts |-> EmptySet]
    /\ delivered = [b \in Broadcasts |-> {}]
    /\ failedSend = {}

\* no query has been called
NoArgs == [limit |-> 0, offset |-> 0, min_confidence |-> Absent, type |-> Absent]
NoResult == [total_count |-> 0, edges |-> <<>>, has_next |-> FALSE,
             has_prev |-> FALSE, high_confidence_count |-> 0, by_type |-> {}]

QueryIdle ==
    /\ qpc = "idle"
    /\ qArgs = NoArgs
    /\ qRes = NoResult

\* no endpoint has received a text
HeartbeatIdle ==
    /\ received = [h \in Handles |-> 0]
    /\ pings = [h \in Handles |-> 0]
    /\ pongs = [h \in Handles |-> 0]
    /\ ponging = [h \in Handles |-> FALSE]

Init ==
    /\ PipelineInit
    /\ ValidatorIdle
    /\ RegistryIdle
    /\ NotifyIdle
    /\ QueryIdle
    /\ HeartbeatIdle

(***************************************************************************)
(* The session: utils/database.py and the SQLAlchemy session it yields.    *)
(***************************************************************************)
\* the except clause committing what is pending instead of rolling it back
RollbackCommits(r) ==
    /\ dbComms' = dbComms \cup (IF pendingComm[r] = "none" THEN {}
                                ELSE {CommRow(r, request[r])})
    /\ dbOpps' = dbOpps
    /\ pendingComm' = [pendingComm EXCEPT ![r] = "none"]
    /\ pendingOpps' = [pendingOpps EXCEPT ![r] = <<>>]

\* a rollback() on a session all requests share: every pending row is dropped
RollbackShared(r) ==
    /\ pendingComm' = [q \in Runs |-> "none"]
    /\ pendingOpps' = [q \in Runs |-> <<>>]
    /\ UNCHANGED <<dbComms, dbOpps>>

\* a rollback() that also undoes what the run has committed
RollbackDeletes(r) ==
    /\ dbComms' = { c \in dbComms : c.id # r }
    /\ dbOpps' = { o \in dbOpps : o.communication_id # r }
    /\ pendingComm' = [pendingComm EXCEPT ![r] = "none"]
    /\ pendingOpps' = [pendingOpps EXCEPT ![r] = <<>>]

\* session.rollback(): the pending rows are dropped, storage is untouched
Rollback(r) ==
    /\ pendingComm' = [pendingComm EXCEPT ![r] = "none"]
    /\ pendingOpps' = [pendingOpps EXCEPT ![r] = <<>>]
    /\ UNCHANGED <<dbComms, dbOpps>>

\* db_gen.aclose(): GeneratorExit at the yield of get_db skips its commit and
\* runs session.close(), which drops whatever is still pending
CloseSession(r) ==
    /\ pendingComm' = [pendingComm EXCEPT ![r] = "none"]
    /\ pendingOpps' = [pendingOpps EXCEPT ![r] = <<>>]
    /\ UNCHANGED <<dbComms, dbOpps>>

\* a commit() where the flush() is: the communication row reaches storage
FlushedCommits(r) ==
    /\ pendingComm' = [pendingComm EXCEPT ![r] = "flushed"]
    /\ dbComms' = dbComms \cup {CommRow(r, request[r])}
    /\ UNCHANGED dbOpps

\* session.flush() returned: the communication row has its identifier, inside
\* the open transaction
Flushed(r) ==
    /\ pendingComm' = [pendingComm EXCEPT ![r] = "flushed"]
    /\ UNCHANGED <<dbComms, dbOpps>>

\* session.commit() returned: the transaction's rows are in storage
Committed(r) ==
    /\ dbComms' = dbComms \cup {CommRow(r, request[r])}
    /\ dbOpps' = dbOpps \cup Range(pendingOpps[r])
    /\ pendingComm' = [pendingComm EXCEPT ![r] = "none"]
    /\ pendingOpps' = [pendingOpps EXCEPT ![r] = <<>>]

\* the NOT NULL columns of an opportunity row
Insertable(rec) ==
    /\ rec.description.k # "null"
    /\ rec.extracted_text.k # "null"

(***************************************************************************)
(* Mutation.create_communication: the except clauses at its end.           *)
(***************************************************************************)
MutationOutcome(exc) ==
    CASE exc = "AIServiceError" -> "Failed to analyze communication"
      [] exc = "ValueError" -> "ValueError"
      [] OTHER -> "Failed to create communication"

\* a mutation without the finally: the session is closed on the way of the
\* return only
AnswerClosesOnReturn(r, answer, step) ==
    /\ pc' = [pc EXCEPT ![r] = "done"]
    /\ sessionOpen' = [sessionOpen EXCEPT ![r] = IF answer = "payload" THEN FALSE ELSE @]
    /\ outcome' = [outcome EXCEPT ![r] = answer]
    /\ failedAt' = [failedAt EXCEPT ![r] = step]

\* the request ends: the session is closed and the answer is given
Answer(r, answer, step) ==
    /\ pc' = [pc EXCEPT ![r] = "done"]
    /\ sessionOpen' = [sessionOpen EXCEPT ![r] = FALSE]
    /\ outcome' = [outcome EXCEPT ![r] = answer]
    /\ failedAt' = [failedAt EXCEPT ![r] = step]

(***************************************************************************)
(* Steps of one request, from one suspension point to the next.            *)
(***************************************************************************)
\* the input checks fail: ValueError, raised before the try block
RejectInput(r) ==
    /\ pc[r] = "received"
    /\ \E content_len \in ContentLens, client_name \in ClientNames :
        /\ InputRejected(content_len, client_name)
        /\ request' = [request EXCEPT ![r] = [content_len |-> content_len,
                                              client_name |-> client_name]]
    /\ pc' = [pc EXCEPT ![r] = "done"]
    /\ outcome' = [outcome EXCEPT ![r] = "ValueError"]
    /\ failedAt' = [failedAt EXCEPT ![r] = FailedAt("input", 0)]
    /\ UNCHANGED <<api_key, sessionOpen, sessionsOpened, storageOps, pendingComm,
                   pendingOpps, attempt, calls, waits, analyzeError, extracted,
                   refreshed, serviceResult, dbComms, dbOpps, rawOpps,
                   otherVars>>

\* the input passes, the session is acquired, OpportunityDetector() raises
RejectCredentials(r) ==
    /\ pc[r] = "received"
    /\ KeyRejected(api_key)
    /\ \E content_len \in ContentLens, client_name \in ClientNames :
        /\ ~InputRejected(content_len, client_name)
        /\ request' = [request EXCEPT ![r] = [content_len |-> content_len,
                                              client_name |-> client_name]]
    /\ sessionsOpened' = [sessionsOpened EXCEPT ![r] = @ + 1]
    /\ storageOps' = [storageOps EXCEPT ![r] = @ + 1]          \* close
    /\ CloseSession(r)
    /\ Answer(r, MutationOutcome("AIServiceError"), FailedAt("credentials", 0))
    /\ UNCHANGED <<api_key, attempt, calls, waits, analyzeError, extracted,
                   refreshed, serviceResult, rawOpps,
                   otherVars>>

\* the input passes, the session is acquired, the services are built, the
\* communication is added and flush() is awaited
Accept(r) ==
    /\ pc[r] = "received"
    /\ ~KeyRejected(api_key)
    /\ \E content_len \in ContentLens, client_name \in ClientNames :
        /\ ~InputRejected(content_len, client_name)
        /\ request' = [request EXCEPT ![r] = [content_len |-> content_len,
                                              client_name |-> client_name]]
    /\ sessionsOpened' = [sessionsOpened EXCEPT ![r] = @ + 1]
    /\ sessionOpen' = [sessionOpen EXCEPT ![r] = TRUE]
    /\ storageOps' = [storageOps EXCEPT ![r] = @ + 2]          \* add, flush
    /\ pendingComm' = [pendingComm EXCEPT ![r] = "added"]
    /\ pc' = [pc EXCEPT ![r] = "flush"]
    /\ UNCHANGED <<api_key, pendingOpps, attempt, calls, waits, analyzeError,
                   extracted, refreshed, serviceResult, failedAt, outcome,
                   dbComms, dbOpps, rawOpps,
                   otherVars>>

\* flush() returns: the try block is entered and the first attempt issues its call
FlushOk(r) ==
    /\ pc[r] = "flush"
    /\ Flushed(r)
    /\ attempt' = [attempt EXCEPT ![r] = 1]
    /\ calls' = [calls EXCEPT ![r] = @ + 1]
    /\ pc' = [pc EXCEPT ![r] = "inference"]
    /\ UNCHANGED <<api_key, request, sessionOpen, sessionsOpened, storageOps,
                   pendingOpps, waits, analyzeError, extracted, refreshed,
                   serviceResult, failedAt, outcome, rawOpps,
                   otherVars>>

\* flush() raises, outside the try block: no rollback() by the service, the
\* mutation's finally closes the session
FlushFails(r) ==
    /\ pc[r] = "flush"
    /\ CloseSession(r)
    /\ storageOps' = [storageOps EXCEPT ![r] = @ + 1]          \* close
    /\ serviceResult' = [serviceResult EXCEPT ![r] = "raised"]
    /\ Answer(r, MutationOutcome("DBAPIError"), FailedAt("flush", 0))
    /\ UNCHANGED <<api_key, request, sessionsOpened, attempt, calls, waits,
                   analyzeError, extracted, refreshed, rawOpps,
                   otherVars>>


\* an attempt fails and tenacity sleeps before the next one
AttemptFailsRetry(r) ==
    /\ pc[r] = "inference"
    /\ \E resp \in Responses : AttemptResult(resp).exc # "none"
    /\ ~StopAfterAttempt(attempt[r])
    /\ waits' = [waits EXCEPT ![r] = Append(@, WaitExponential(attempt[r]))]
    /\ pc' = [pc EXCEPT ![r] = "backoff"]
    /\ UNCHANGED <<api_key, request, sessionOpen, sessionsOpened, storageOps,
                   pendingComm, pendingOpps, attempt, calls, analyzeError,
                   extracted, refreshed, serviceResult, failedAt, outcome,
                   dbComms, dbOpps, rawOpps,
                   otherVars>>

\* the sleep ends and the next attempt issues its call
BackoffDone(r) ==
    /\ pc[r] = "backoff"
    /\ attempt' = [attempt EXCEPT ![r] = @ + 1]
    /\ calls' = [calls EXCEPT ![r] = @ + 1]
    /\ pc' = [pc EXCEPT ![r] = "inference"]
    /\ UNCHANGED <<api_key, request, sessionOpen, sessionsOpened, storageOps,
                   pendingComm, pendingOpps, waits, analyzeError, extracted,
                   refreshed, serviceResult, failedAt, outcome, dbComms, dbOpps,
                   rawOpps,
                   otherVars>>

\* the last attempt fails: tenacity raises, the service rolls back and
\* re-raises, the mutation closes the session and answers
AttemptFailsStop(r) ==
    /\ pc[r] = "inference"
    /\ \E resp \in Responses : AttemptResult(resp).exc # "none"
    /\ StopAfterAttempt(attempt[r])
    /\ analyzeError' = [analyzeError EXCEPT ![r] = RetryExhausted]
    /\ Rollback(r)
    /\ storageOps' = [storageOps EXCEPT ![r] = @ + 2]          \* rollback, close
    /\ serviceResult' = [serviceResult EXCEPT ![r] = "raised"]
    /\ Answer(r, MutationOutcome(RetryExhausted), FailedAt("analyze", attempt[r]))
    /\ UNCHANGED <<api_key, request, sessionsOpened, attempt, calls, waits,
                   extracted, refreshed, rawOpps,
                   otherVars>>

\* an attempt returns the validated list: the opportunities are built and
\* added, commit() is awaited
AttemptSucceeds(r) ==
    /\ pc[r] = "inference"
    /\ \E resp \in Responses :
        /\ AttemptResult(resp).exc = "none"
        /\ extracted' = [extracted EXCEPT ![r] = AttemptResult(resp).validated]
        /\ rawOpps' = [rawOpps EXCEPT ![r] = resp.opportunities]
    /\ pendingOpps' = [pendingOpps EXCEPT ![r] = Opportunities(r, extracted'[r])]
    /\ storageOps' = [storageOps EXCEPT ![r] = @ + Len(extracted'[r]) + 1]
    /\ pc' = [pc EXCEPT ![r] = "commit"]
    /\ UNCHANGED <<api_key, request, sessionOpen, sessionsOpened, pendingComm,
                   attempt, calls, waits, analyzeError, refreshed, serviceResult,
                   failedAt, outcome, dbComms, dbOpps, otherVars>>

\* commit() returns: refresh(communication) is awaited
CommitOk(r) ==
    /\ pc[r] = "commit"
    /\ \A i \in 1..Len(pendingOpps[r]) : Insertable(pendingOpps[r][i])
    /\ Committed(r)
    /\ storageOps' = [storageOps EXCEPT ![r] = @ + 1]          \* refresh
    /\ pc' = [pc EXCEPT ![r] = "refresh"]
    /\ UNCHANGED <<api_key, request, sessionOpen, sessionsOpened, attempt, calls,
                   waits, analyzeError, extracted, refreshed, serviceResult,
                   failedAt, outcome, rawOpps,
                   otherVars>>

\* commit() raises, at the INSERT of the k-th opportunity or, for k = 0, at
\* the COMMIT: the service rolls back and re-raises
CommitFails(r) ==
    /\ pc[r] = "commit"
    /\ \E k \in 0..Len(pendingOpps[r]) :
        Answer(r, MutationOutcome("DBAPIError"),
               FailedAt(IF k = 0 THEN "commit" ELSE "insert", k))
    /\ Rollback(r)
    /\ storageOps' = [storageOps EXCEPT ![r] = @ + 2]          \* rollback, close
    /\ serviceResult' = [serviceResult EXCEPT ![r] = "raised"]
    /\ UNCHANGED <<api_key, request, sessionsOpened, attempt, calls, waits,
                   analyzeError, extracted, refreshed, rawOpps,
                   otherVars>>

\* a refresh() returns and another one is awaited
RefreshNext(r) ==
    /\ pc[r] = "refresh"
    /\ refreshed[r] < Len(extracted[r])
    /\ refreshed' = [refreshed EXCEPT ![r] = @ + 1]
    /\ storageOps' = [storageOps EXCEPT ![r] = @ + 1]          \* refresh
    /\ UNCHANGED <<api_key, pc, request, sessionOpen, sessionsOpened, pendingComm,
                   pendingOpps, attempt, calls, waits, analyzeError, extracted,
                   serviceResult, failedAt, outcome, dbComms, dbOpps,
                   rawOpps,
                   otherVars>>

\* the last refresh() returns: the service returns, the mutation builds the
\* payload, closes the session and answers
RefreshLast(r) ==
    /\ pc[r] = "refresh"
    /\ refreshed[r] = Len(extracted[r])
    /\ refreshed' = [refreshed EXCEPT ![r] = @ + 1]
    /\ CloseSession(r)
    /\ storageOps' = [storageOps EXCEPT ![r] = @ + 1]          \* close
    /\ serviceResult' = [serviceResult EXCEPT ![r] = "returned"]
    /\ Answer(r, "payload", NoFailure)
    /\ UNCHANGED <<api_key, request, sessionsOpened, attempt, calls, waits,
                   analyzeError, extracted, rawOpps,
                   otherVars>>

\* a service that answers a failed refresh() by committing again
RefreshFailsRecommits(r) ==
    /\ pc[r] = "refresh"
    /\ pc' = [pc EXCEPT ![r] = "commit"]
    /\ UNCHANGED <<api_key, request, sessionOpen, sessionsOpened, storageOps,
                   pendingComm, pendingOpps, attempt, calls, waits, analyzeError,
                   extracted, refreshed, serviceResult, failedAt, outcome,
                   dbComms, dbOpps, rawOpps, otherVars>>

\* a refresh() raises, after the commit: the service rolls back and re-raises
RefreshFails(r) ==
    /\ pc[r] = "refresh"
    /\ Rollback(r)
    /\ storageOps' = [storageOps EXCEPT ![r] = @ + 2]          \* rollback, close
    /\ serviceResult' = [serviceResult EXCEPT ![r] = "raised"]
    /\ Answer(r, MutationOutcome("DBAPIError"), FailedAt("refresh", refreshed[r]))
    /\ UNCHANGED <<api_key, request, sessionsOpened, attempt, calls, waits,
                   analyzeError, extracted, refreshed, rawOpps,
                   otherVars>>

\* one step of request r
Step(r) ==
    \/ RejectInput(r)
    \/ RejectCredentials(r)
    \/ Accept(r)
    \/ FlushOk(r)
    \/ FlushFails(r)
    \/ AttemptFailsRetry(r)
    \/ BackoffDone(r)
    \/ AttemptFailsStop(r)
    \/ AttemptSucceeds(r)
    \/ CommitOk(r)
    \/ CommitFails(r)
    \/ RefreshNext(r)
    \/ RefreshLast(r)
    \/ RefreshFails(r)

Next == \E r \in SingleRuns : Step(r)

Spec == Init /\ [][Next]_vars

\* every awaited call of a request that has been accepted returns or raises,
\* and every backoff sleep ends
Continue(r) == pc[r] # "received" /\ Step(r)

SpecLive == Init /\ [][Next]_vars /\ \A r \in SingleRuns : WF_vars(Continue(r))

\* requests served concurrently by the event loop: each await of a request
\* is a point where a step of another request can run
NextInterleaved == \E r \in Runs : Step(r)

SpecInterleaved == Init /\ [][NextInterleaved]_vars

(***************************************************************************)
(* The validator on its own: a raw batch is drawn and validated.           *)
(***************************************************************************)
ValidatorInit ==
    /\ PipelineInit
    /\ api_key = "valid"
    /\ vRaw \in RawBatches
    /\ vDone = FALSE
    /\ vOut = NotRun
    /\ RegistryIdle
    /\ NotifyIdle
    /\ QueryIdle
    /\ HeartbeatIdle

RunValidator ==
    /\ ~vDone
    /\ vDone' = TRUE
    /\ vOut' = validate_opportunities(vRaw)
    /\ UNCHANGED <<vRaw, pipelineVars, registryVars, notifyVars, queryVars, heartbeatVars>>

SpecValidator == ValidatorInit /\ [][RunValidator]_vars


(***************************************************************************)
(* The registry and its broadcasts: websocket/manager.py and the           *)
(* websocket_endpoint of main.py.  Every await is a point where the other   *)
(* coroutines of the event loop run.                                        *)
(***************************************************************************)
\* connect() calls made on handles that were registered, returned or pending
Reconnects ==
    SumUpTo([h \in Handles |->
                (IF connects[h] > 1 THEN connects[h] - 1 ELSE 0)
                + (IF connecting[h] /\ connects[h] > 0 THEN 1 ELSE 0)],
            NumHandles)

\* connect(websocket) is called and suspends in `await websocket.accept()`:
\* by websocket_endpoint for a new socket, by any caller for a registered one
\* that has failed no send
ConnectCall(h) ==
    /\ ~connecting[h]
    /\ endpoint[h] \in {"new", "open"}
    /\ endpoint[h] = "open" =>
        /\ Reconnects < MaxReconnects
        /\ active_connections[h] > 0
        /\ h \notin failedSend
    /\ endpoint[h] = "new" => \A g \in Handles : g < h => endpoint[g] # "new"
    /\ connecting' = [connecting EXCEPT ![h] = TRUE]
    /\ endpoint' = [endpoint EXCEPT ![h] = IF @ = "new" THEN "handshake" ELSE @]
    /\ UNCHANGED <<active_connections, connects, bpc, snapshot, todo, cur,
                   disconnected, sends, delivered, failedSend, pipelineVars,
                   validatorVars, notifyVars, queryVars, heartbeatVars>>

\* accept() returns: the handle is added and the endpoint enters its loop;
\* on a socket that has failed a send or is closed, accept() does not return
AcceptOk(h) ==
    /\ connecting[h]
    /\ endpoint[h] \in {"handshake", "open"}
    /\ h \notin failedSend
    /\ active_connections' = SetAdd(active_connections, h)
    /\ connects' = [connects EXCEPT ![h] = @ + 1]
    /\ connecting' = [connecting EXCEPT ![h] = FALSE]
    /\ endpoint' = [endpoint EXCEPT ![h] = "open"]
    /\ UNCHANGED <<bpc, snapshot, todo, cur, disconnected, sends, delivered,
                   failedSend, pipelineVars, validatorVars, notifyVars, queryVars, heartbeatVars>>

\* accept() raises: connect raises before the add; websocket_endpoint calls
\* connect outside its try, so a new socket's endpoint ends there
AcceptFails(h) ==
    /\ connecting[h]
    /\ connecting' = [connecting EXCEPT ![h] = FALSE]
    /\ endpoint' = [endpoint EXCEPT ![h] = IF @ = "handshake" THEN "refused" ELSE @]
    /\ UNCHANGED <<active_connections, connects, bpc, snapshot, todo, cur,
                   disconnected, sends, delivered, failedSend, pipelineVars,
                   validatorVars, notifyVars, queryVars, heartbeatVars>>

\* receive_text raises WebSocketDisconnect or another exception: the handler
\* calls disconnect(websocket) and the endpoint ends
EndpointCloses(h) ==
    /\ endpoint[h] = "open"
    /\ ~ponging[h]
    /\ active_connections' = SetDiscard(active_connections, h)
    /\ endpoint' = [endpoint EXCEPT ![h] =
                        IF DiscardRaises(active_connections, h)
                        THEN "crashed" ELSE "closed"]
    /\ UNCHANGED <<connecting, connects, bpc, snapshot, todo, cur, disconnected,
                   sends, delivered, failedSend, pipelineVars, validatorVars,
                   notifyVars, queryVars, heartbeatVars>>

\* the entries the loop of broadcast b still has to visit, were it to walk
\* the registry itself
LiveEntries(b) ==
    [h \in Handles |->
        IF active_connections[h] > 0 /\ sends[b][h] = 0 THEN 1 ELSE 0]

\* the entries the loop of broadcast b still has to visit: those of the copy
\* taken when broadcast was called
IterEntries(b) == todo[b]

\* the loop of broadcast goes on from entries ents with failed connections
\* failed: it awaits the next send_bytes, or removes the failed connections
\* and returns
Proceed(b, ents, failed) ==
    IF Members(ents) # {}
    THEN /\ \E c \in Members(ents) :
              /\ cur' = [cur EXCEPT ![b] = c]
              /\ todo' = [todo EXCEPT ![b] = Take(ents, c)]
              /\ sends' = [sends EXCEPT ![b][c] = @ + 1]
         /\ bpc' = [bpc EXCEPT ![b] = "sending"]
         /\ UNCHANGED active_connections
    ELSE /\ cur' = [cur EXCEPT ![b] = NoHandle]
         /\ todo' = [todo EXCEPT ![b] = ents]
         /\ active_connections' = DiscardAll(active_connections, failed)
         /\ bpc' = [bpc EXCEPT ![b] =
                        IF \E conn \in failed : DiscardRaises(active_connections, conn)
                        THEN "raised" ELSE "returned"]
         /\ UNCHANGED sends

\* broadcast(message) is called: it copies the registry and starts its loop
BroadcastStart(b) ==
    /\ bpc[b] = "idle"
    /\ \A a \in Broadcasts : a < b => bpc[a] # "idle"
    /\ snapshot' = [snapshot EXCEPT ![b] = Members(active_connections)]
    /\ disconnected' = [disconnected EXCEPT ![b] = {}]
    /\ Proceed(b, SetCopy(active_connections), {})
    /\ UNCHANGED <<endpoint, connecting, connects, delivered, failedSend,
                   pipelineVars, validatorVars, notifyVars, queryVars, heartbeatVars>>

\* the awaited send_bytes returns
SendOk(b) ==
    /\ bpc[b] = "sending"
    /\ endpoint[cur[b]] = "open"
    /\ delivered' = [delivered EXCEPT ![b] = @ \cup {cur[b]}]
    /\ Proceed(b, IterEntries(b), disconnected[b])
    /\ UNCHANGED <<endpoint, connecting, connects, snapshot, disconnected,
                   failedSend, pipelineVars, validatorVars, notifyVars, queryVars, heartbeatVars>>

\* the awaited send_bytes raises: the connection joins `disconnected` and the
\* loop goes on, or the exception leaves broadcast
SendFails(b) ==
    /\ bpc[b] = "sending"
    /\ failedSend' = failedSend \cup {cur[b]}
    /\ \E exc \in SendErrors :
        IF BroadcastCatches(exc)
        THEN /\ disconnected' = [disconnected EXCEPT ![b] = @ \cup {cur[b]}]
             /\ Proceed(b, IterEntries(b), disconnected'[b])
        ELSE /\ bpc' = [bpc EXCEPT ![b] = "raised"]
             /\ UNCHANGED <<active_connections, todo, cur, sends, disconnected>>
    /\ UNCHANGED <<endpoint, connecting, connects, snapshot, delivered,
                   pipelineVars, validatorVars, notifyVars, queryVars, heartbeatVars>>

\* the registry starts empty, with no broadcast in flight
RegistryInit ==
    /\ PipelineInit
    /\ api_key = "valid"
    /\ ValidatorIdle
    /\ NotifyIdle
    /\ RegistryIdle
    /\ QueryIdle
    /\ HeartbeatIdle

NextRegistry ==
    \/ \E h \in Handles :
        \/ ConnectCall(h)
        \/ AcceptOk(h)
        \/ AcceptFails(h)
        \/ EndpointCloses(h)
    \/ \E b \in Broadcasts :
        \/ BroadcastStart(b)
        \/ SendOk(b)
        \/ SendFails(b)

SpecRegistry == RegistryInit /\ [][NextRegistry]_vars

(***************************************************************************)
(* main.py, websocket_endpoint: the loop over receive_text and the          *)
(* heartbeat, together with the registry and the broadcasts.                *)
(***************************************************************************)
TextData == {"ping", "pong", "PING"}

\* a handler that answers every text
IsPingAny(data) == TRUE

\* `if data == "ping"`
IsPing(data) == data = "ping"

\* receive_text returns data: on "ping" send_text("pong") is awaited,
\* otherwise receive_text is awaited again
ReceiveText(h) ==
    /\ endpoint[h] = "open"
    /\ ~ponging[h]
    /\ SumUpTo(received, NumHandles) < MaxTexts
    /\ \E data \in TextData :
        /\ received' = [received EXCEPT ![h] = @ + 1]
        /\ pings' = [pings EXCEPT ![h] = IF data = "ping" THEN @ + 1 ELSE @]
        /\ pongs' = [pongs EXCEPT ![h] = IF IsPing(data) THEN @ + 1 ELSE @]
        /\ ponging' = [ponging EXCEPT ![h] = IsPing(data)]
    /\ UNCHANGED <<registryVars, pipelineVars, validatorVars, notifyVars, queryVars>>

\* send_text("pong") returns: receive_text is awaited again
PongSent(h) ==
    /\ ponging[h]
    /\ ponging' = [ponging EXCEPT ![h] = FALSE]
    /\ UNCHANGED <<received, pings, pongs, registryVars, pipelineVars,
                   validatorVars, notifyVars, queryVars>>

\* send_text("pong") raises: the handler calls disconnect(websocket) and the
\* endpoint ends
PongFails(h) ==
    /\ ponging[h]
    /\ ponging' = [ponging EXCEPT ![h] = FALSE]
    /\ active_connections' = SetDiscard(active_connections, h)
    /\ endpoint' = [endpoint EXCEPT ![h] = "closed"]
    /\ UNCHANGED <<received, pings, pongs, connecting, connects, bpc, snapshot,
                   todo, cur, disconnected, sends, delivered, failedSend,
                   pipelineVars, validatorVars, notifyVars, queryVars>>

\* the endpoints' whole life beside one broadcast call
NextHeartbeat ==
    \/ \E h \in Handles :
        \/ ConnectCall(h)
        \/ AcceptOk(h)
        \/ AcceptFails(h)
        \/ EndpointCloses(h)
        \/ ReceiveText(h)
        \/ PongSent(h)
        \/ PongFails(h)
    \/ \E b \in {1} :
        \/ BroadcastStart(b)
        \/ SendOk(b)
        \/ SendFails(b)

SpecHeartbeat == RegistryInit /\ [][NextHeartbeat]_vars



(***************************************************************************)
(* The notification decision and its encoding: opportunity_service.py and  *)
(* protobuf/helpers.py.  A persisted confidence is a Numeric(5,2), held     *)
(* here as its number of hundredths.  The message type and the enum of      *)
(* messages_pb2 follow the wire format the specification gives.             *)
(***************************************************************************)
RECURSIVE Str(_)
RECURSIVE NextPowerOfTwo(_, _)

\* the whole number n as a Numeric(5,2)
Numeric(n) == n * SCALE

\* a decision that leaves the threshold itself out
should_notify_above(opportunity) ==
    opportunity.confidence > Numeric(NOTIFY_CONFIDENCE)

\* OpportunityService.should_notify
should_notify(opportunity) ==
    opportunity.confidence >= Numeric(NOTIFY_CONFIDENCE)

\* str(n) of a non-negative int
Str(n) == IF n < 10 THEN <<Digits[n + 1]>>
          ELSE Str(n \div 10) \o <<Digits[(n % 10) + 1]>>

NextPowerOfTwo(x, p) == IF p >= x THEN p ELSE NextPowerOfTwo(x, 2 * p)

\* the float32 steps per unit at the magnitude of c hundredths: the power of
\* two u with 2^23 <= c * u / 100 < 2^24 (a 24-bit significand)
StepsPerUnit(c) == NextPowerOfTwo((SCALE * Pow(2, 23) + c - 1) \div c, 1)

\* c hundredths as the float32 the wire carries: m steps of 1/u, rounded to
\* nearest, ties to even
Float32(c) ==
    IF c = 0 THEN [m |-> 0, u |-> 1]
    ELSE LET u == StepsPerUnit(c)
             q == (c * u) \div SCALE
             rest == (c * u) % SCALE
             up == 2 * rest > SCALE \/ (2 * rest = SCALE /\ q % 2 = 1)
         IN [m |-> IF up THEN q + 1 ELSE q, u |-> u]

\* the float32 f is the number of c hundredths
SameNumber(c, f) == f.m * SCALE = c * f.u

\* the float32 f is within half a step of c hundredths
NearestFloat32(c, f) ==
    LET d == f.m * SCALE - c * f.u
    IN 2 * d <= SCALE /\ 2 * d >= 0 - SCALE

\* the enum OpportunityType of messages_pb2
ProtoOrdinal(name) ==
    CASE name = "REAL_ESTATE" -> 0
      [] name = "EMPLOYMENT_LAW" -> 1
      [] name = "MERGERS_AND_ACQUISITIONS" -> 2
      [] name = "INTELLECTUAL_PROPERTY" -> 3
      [] name = "LITIGATION" -> 4
      [] name = "UNKNOWN" -> 5

ProtoNames == {"REAL_ESTATE", "EMPLOYMENT_LAW", "MERGERS_AND_ACQUISITIONS",
               "INTELLECTUAL_PROPERTY", "LITIGATION", "UNKNOWN"}

\* OpportunityType.Name(ordinal): ValueError on an ordinal without a name
ProtoName(ordinal) ==
    IF \E name \in ProtoNames : ProtoOrdinal(name) = ordinal
    THEN CHOOSE name \in ProtoNames : ProtoOrdinal(name) = ordinal
    ELSE "ValueError"

\* a dict lookup without the default: KeyError outside the five categories
OPPORTUNITY_TYPE_MAP_strict(opportunity_type) ==
    IF opportunity_type \in ProtoNames \ {"UNKNOWN"}
    THEN ProtoOrdinal(opportunity_type)
    ELSE 0 - 1

\* OPPORTUNITY_TYPE_MAP.get(opportunity_type, messages_pb2.UNKNOWN)
OPPORTUNITY_TYPE_MAP(opportunity_type) ==
    IF opportunity_type \in ProtoNames \ {"UNKNOWN"}
    THEN ProtoOrdinal(opportunity_type)
    ELSE ProtoOrdinal("UNKNOWN")

\* messages_pb2.OpportunityNotification(...)
OpportunityNotification(opportunity_id, title, type, confidence, client_name, timestamp, description) ==
    [opportunity_id |-> opportunity_id, title |-> title, type |-> type,
     confidence |-> confidence, client_name |-> client_name,
     timestamp |-> timestamp, description |-> description]

\* one field on the wire; proto3 leaves a field at its default value out
WireField(num, val, default) ==
    IF val = default THEN <<>> ELSE <<[num |-> num, val |-> val]>>

\* SerializeToString: the fields in the order of their numbers
SerializeToString(msg) ==
    WireField(1, msg.opportunity_id, <<>>)
    \o WireField(2, msg.title, <<>>)
    \o WireField(3, msg.type, 0)
    \o WireField(4, msg.confidence, Float32(0))
    \o WireField(5, msg.client_name, <<>>)
    \o WireField(6, msg.timestamp, 0)
    \o WireField(7, msg.description, <<>>)

\* the value of field num in data, the default when the field is absent
FieldOf(data, num, default) ==
    IF \E i \in 1..Len(data) : data[i].num = num
    THEN data[CHOOSE i \in 1..Len(data) :
                 /\ data[i].num = num
                 /\ \A j \in 1..Len(data) : data[j].num = num => j <= i].val
    ELSE default

\* ParseFromString
ParseFromString(data) ==
    OpportunityNotification(FieldOf(data, 1, <<>>), FieldOf(data, 2, <<>>),
                            FieldOf(data, 3, 0), FieldOf(data, 4, Float32(0)),
                            FieldOf(data, 5, <<>>), FieldOf(data, 6, 0),
                            FieldOf(data, 7, <<>>))

\* an encoder that passes the description where the title goes
create_opportunity_notification_swapped(opportunity, client_name, now) ==
    SerializeToString(
        OpportunityNotification(Str(opportunity.id), opportunity.description,
                                OPPORTUNITY_TYPE_MAP(opportunity.opportunity_type),
                                Float32(opportunity.confidence), client_name,
                                now, opportunity.title))

\* create_opportunity_notification; now is int(datetime.utcnow().timestamp())
create_opportunity_notification(opportunity, client_name, now) ==
    SerializeToString(
        OpportunityNotification(Str(opportunity.id), opportunity.title,
                                OPPORTUNITY_TYPE_MAP(opportunity.opportunity_type),
                                Float32(opportunity.confidence), client_name,
                                now, opportunity.description))

\* an exception leaves the call
Raised(exc) == [raised |-> exc]

\* parse_opportunity_notification: Name() raises out of it
parse_opportunity_notification(data) ==
    LET notification == ParseFromString(data)
        name == ProtoName(notification.type)
    IN IF name = "ValueError" THEN Raised("ValueError")
       ELSE [opportunity_id |-> notification.opportunity_id,
             title |-> notification.title,
             type |-> name,
             confidence |-> notification.confidence,
             client_name |-> notification.client_name,
             timestamp |-> notification.timestamp,
             description |-> notification.description]

None == [kind |-> "None", data |-> <<>>]
Bytes(data) == [kind |-> "bytes", data |-> data]

\* OpportunityService.create_notification_message
create_notification_message(opportunity, client_name, now) ==
    IF ~should_notify(opportunity) THEN None
    ELSE Bytes(create_opportunity_notification(opportunity, client_name, now))

\* the opportunities the notification is computed for: two-decimal confidences
\* at the ends of the range, around 40 and 70, and with and without a
\* fraction that is a multiple of 0.25; the five categories and a value that
\* is none of them
NotifyOpportunities ==
    [id : {7, 120},
     title : {<<"T">>, <<"L", "e", "a", "s", "e">>},
     description : {<<"D">>, <<"a", " ", "b">>},
     opportunity_type : (ProtoNames \ {"UNKNOWN"}) \cup {"OTHER"},
     confidence : {0, 1, 3999, 4000, 6999, 7000, 7001, 8500, 8525, 8555, 10000}]

NotifyInit ==
    /\ PipelineInit
    /\ api_key = "valid"
    /\ ValidatorIdle
    /\ RegistryIdle
    /\ npc = "drawn"
    /\ nOpp \in NotifyOpportunities
    /\ nClient \in {<<"A">>, <<"A", "c", "m", "e">>}
    /\ nNow \in {1700000000}
    /\ nMessage = None
    /\ nWire = <<>>
    /\ nParsed = <<>>
    /\ QueryIdle
    /\ HeartbeatIdle

\* create_notification_message(opportunity, client_name) is called
Notify ==
    /\ npc = "drawn"
    /\ nMessage' = create_notification_message(nOpp, nClient, nNow)
    /\ npc' = "decided"
    /\ UNCHANGED <<nOpp, nClient, nNow, nWire, nParsed, pipelineVars,
                   validatorVars, registryVars, queryVars, heartbeatVars>>

\* create_opportunity_notification(opportunity, client_name) is called
Encode ==
    /\ npc = "decided"
    /\ nWire' = create_opportunity_notification(nOpp, nClient, nNow)
    /\ npc' = "encoded"
    /\ UNCHANGED <<nOpp, nClient, nNow, nMessage, nParsed, pipelineVars,
                   validatorVars, registryVars, queryVars, heartbeatVars>>

\* bytes arrive from another encoder of the same message type, with a type
\* ordinal the enumeration does not define
ReceiveForeign ==
    /\ npc = "decided"
    /\ \E ordinal \in {6, 99} :
        nWire' = SerializeToString(
                    OpportunityNotification(Str(nOpp.id), nOpp.title, ordinal,
                                            Float32(nOpp.confidence), nClient,
                                            nNow, nOpp.description))
    /\ npc' = "received"
    /\ UNCHANGED <<nOpp, nClient, nNow, nMessage, nParsed, pipelineVars,
                   validatorVars, registryVars, queryVars, heartbeatVars>>

\* parse_opportunity_notification(data) is called on those bytes
Decode ==
    /\ npc \in {"encoded", "received"}
    /\ nParsed' = parse_opportunity_notification(nWire)
    /\ npc' = IF npc = "encoded" THEN "parsed" ELSE "parsed_foreign"
    /\ UNCHANGED <<nOpp, nClient, nNow, nMessage, nWire, pipelineVars,
                   validatorVars, registryVars, queryVars, heartbeatVars>>

NextNotify == Notify \/ Encode \/ ReceiveForeign \/ Decode

SpecNotify == NotifyInit /\ [][NextNotify]_vars

(***************************************************************************)
(* api/graphql/queries.py: Query.opportunities and Query.opportunity_stats. *)
(* Each awaited db.execute is one statement; PostgreSQL runs a session at   *)
(* READ COMMITTED unless told otherwise (utils/database.py sets no          *)
(* isolation level), so each statement reads the rows committed when it     *)
(* runs, and a createCommunication request can commit between two of them.  *)
(***************************************************************************)
DEFAULT_LIMIT == 20
DEFAULT_OFFSET == 0
HIGH_CONFIDENCE == 80

\* `Opportunity.confidence >= x` as PostgreSQL compares numerics: NaN equals
\* NaN and is greater than every other value
SqlGe(a, b) == a.nan \/ (~b.nan /\ a.v >= b.v)

\* the where clauses both statements of Query.opportunities carry
Where(o, min_confidence, type) ==
    /\ min_confidence.given => SqlGe(o.confidence, Float(min_confidence.v))
    /\ type.given => o.opportunity_type = type.v

\* the rows a statement with those where clauses reads
Filtered(rows, min_confidence, type) ==
    { o \in rows : Where(o, min_confidence, type) }

\* order_by(confidence.desc(), detected_at.desc()): rows of one commit carry
\* the same detected_at, so rows of equal confidence come in any order
RECURSIVE OrderBy(_)
OrderBy(rows) ==
    IF rows = {} THEN <<>>
    ELSE LET first == CHOOSE x \in rows :
                        \A y \in rows : SqlGe(x.confidence, y.confidence)
         IN <<first>> \o OrderBy(rows \ {first})

\* .limit(limit).offset(offset) on the ordered rows: the sets of rows a page
\* can hold, one for each order the ties can come in
Pages(rows, limit, offset) ==
    LET n == Cardinality(rows)
        skipped == Min(offset, n)
        taken == Min(limit, n - skipped)
    IN { page \in SUBSET rows :
            /\ Cardinality(page) = taken
            /\ \E before \in SUBSET (rows \ page) :
                /\ Cardinality(before) = skipped
                /\ \A b \in before : \A x \in page :
                    SqlGe(b.confidence, x.confidence)
                /\ \A x \in before \cup page : \A a \in rows \ (before \cup page) :
                    SqlGe(x.confidence, a.confidence) }

\* has_next with the comparison turned around at the boundary
HasNextInclusive(limit, offset, total_count) == (offset + limit) <= total_count

\* has_next = (offset + limit) < total_count
HasNext(limit, offset, total_count) == (offset + limit) < total_count

\* has_prev = offset > 0
HasPrev(offset) == offset > 0

\* select opportunity_type, count(id) ... group by opportunity_type
GroupByType(rows) ==
    { [type |-> t, count |-> Cardinality({ o \in rows : o.opportunity_type = t })] :
        t \in { o.opportunity_type : o \in rows } }

\* the arguments the model calls Query.opportunities with
QueryArgs ==
    [limit : {-1, 0, 1, 2, MAX_OPPORTUNITIES, DEFAULT_LIMIT},
     offset : {DEFAULT_OFFSET, 1, MAX_OPPORTUNITIES},
     min_confidence : {Absent, Given(HIGH_CONFIDENCE)},
     type : {Absent, Given("INTELLECTUAL_PROPERTY")}]

\* Query.opportunities is called: the statements are built and the count
\* statement is awaited
OpportunitiesCall ==
    /\ qpc = "idle"
    /\ qArgs' \in QueryArgs
    /\ qpc' = "count"
    /\ UNCHANGED <<qRes, pipelineVars, validatorVars, registryVars, notifyVars, heartbeatVars>>

\* the count statement returns; the page statement is awaited
CountReturns ==
    /\ qpc = "count"
    /\ qRes' = [qRes EXCEPT !.total_count =
                    Cardinality(Filtered(dbOpps, qArgs.min_confidence, qArgs.type))]
    /\ qpc' = "page"
    /\ UNCHANGED <<qArgs, pipelineVars, validatorVars, registryVars, notifyVars, heartbeatVars>>

\* the page statement returns: edges and page info are built and returned
PageReturns ==
    /\ qpc = "page"
    /\ qArgs.limit >= 0
    /\ qArgs.offset >= 0
    /\ \E page \in Pages(Filtered(dbOpps, qArgs.min_confidence, qArgs.type),
                         qArgs.limit, qArgs.offset) :
        qRes' = [qRes EXCEPT
                    !.edges = OrderBy(page),
                    !.has_next = HasNext(qArgs.limit, qArgs.offset, qRes.total_count),
                    !.has_prev = HasPrev(qArgs.offset)]
    /\ qpc' = "returned"
    /\ UNCHANGED <<qArgs, pipelineVars, validatorVars, registryVars, notifyVars, heartbeatVars>>

\* a statement raises (a lost connection, or LIMIT / OFFSET below zero on the
\* page statement): the resolver raises and the query is answered by an error
StatementFails ==
    /\ qpc \in {"count", "page", "total", "high", "by_type"}
    /\ qpc' = "raised"
    /\ UNCHANGED <<qArgs, qRes, pipelineVars, validatorVars, registryVars,
                   notifyVars, heartbeatVars>>

\* Query.opportunity_stats is called and awaits its first statement
StatsCall ==
    /\ qpc = "idle"
    /\ qpc' = "total"
    /\ UNCHANGED <<qArgs, qRes, pipelineVars, validatorVars, registryVars,
                   notifyVars, heartbeatVars>>

\* the total count returns; the high-confidence count is awaited
TotalReturns ==
    /\ qpc = "total"
    /\ qRes' = [qRes EXCEPT !.total_count = Cardinality(dbOpps)]
    /\ qpc' = "high"
    /\ UNCHANGED <<qArgs, pipelineVars, validatorVars, registryVars, notifyVars, heartbeatVars>>

\* the high-confidence count returns; the count by type is awaited
HighReturns ==
    /\ qpc = "high"
    /\ qRes' = [qRes EXCEPT !.high_confidence_count =
                    Cardinality(Filtered(dbOpps, Given(HIGH_CONFIDENCE), Absent))]
    /\ qpc' = "by_type"
    /\ UNCHANGED <<qArgs, pipelineVars, validatorVars, registryVars, notifyVars, heartbeatVars>>

\* the count by type returns: the statistics are built and returned
ByTypeReturns ==
    /\ qpc = "by_type"
    /\ qRes' = [qRes EXCEPT !.by_type = GroupByType(dbOpps)]
    /\ qpc' = "stats_returned"
    /\ UNCHANGED <<qArgs, pipelineVars, validatorVars, registryVars, notifyVars, heartbeatVars>>

\* one query, while createCommunication requests run
NextQuery ==
    \/ \E r \in SingleRuns : Step(r)
    \/ OpportunitiesCall
    \/ CountReturns
    \/ PageReturns
    \/ StatementFails
    \/ StatsCall
    \/ TotalReturns
    \/ HighReturns
    \/ ByTypeReturns

SpecQuery == Init /\ [][NextQuery]_vars



(***************************************************************************)
(* Properties.                                                             *)
(***************************************************************************)
\* the rows of run r that storage holds
CommsOf(r) == { c \in dbComms : c.id = r }
OppsOf(r) == { o \in dbOpps : o.communication_id = r }
NothingStored(r) == CommsOf(r) = {} /\ OppsOf(r) = {}

\* empty or made of whitespace only
Blank(name) == \A i \in 1..Len(name) : name[i] \in Whitespace

C2_AtMostFive ==
    \A r \in Runs :
        /\ Len(extracted[r]) <= 5
        /\ Cardinality(OppsOf(r)) <= 5

\* C3: every record the validator emits has a confidence c with
\* 40 <= c <= 100 and one of the five category tokens.
C3_ConfidenceAndCategory ==
    vDone =>
        \A i \in 1..Len(vOut.validated) :
            /\ FloatGe(vOut.validated[i].confidence, Float(40))
            /\ FloatLe(vOut.validated[i].confidence, Float(100))
            /\ vOut.validated[i].type \in valid_types

\* C4: when the flush, the insertion of the k-th opportunity or the commit
\* fails, storage holds neither the run's communication nor any of its
\* opportunities; every stored opportunity references a stored communication.
C4_AtomicPersistence ==
    /\ \A r \in Runs :
          failedAt[r].step \in {"flush", "insert", "commit"}
          => /\ NothingStored(r)
             /\ outcome[r] = "Failed to create communication"
    /\ \A o \in dbOpps : \E c \in dbComms : c.id = o.communication_id
    /\ \A r \in Runs : OppsOf(r) # {} => Cardinality(OppsOf(r)) = Len(extracted[r])

C4_Witness ==
    \E r \in Runs :
        /\ failedAt[r] = FailedAt("insert", 3)
        /\ Len(extracted[r]) = 5
        /\ pc[r] = "done"

\* C5: when every attempt of the extraction fails, the run ends in failure
\* and storage holds no communication and no opportunity of that run, although
\* the communication was added and flushed before the first inference call.
C5_ExtractionFailureStoresNothing ==
    \A r \in Runs :
        /\ calls[r] > 0 /\ pc[r] \in {"inference", "backoff"}
           => pendingComm[r] = "flushed" /\ NothingStored(r)
        /\ failedAt[r].step = "analyze"
           => /\ pc[r] = "done"
              /\ serviceResult[r] = "raised"
              /\ outcome[r] \notin {"none", "payload"}
              /\ pendingComm[r] = "none"
              /\ NothingStored(r)

C5_Witness ==
    \E r \in Runs :
        /\ failedAt[r].step = "analyze"
        /\ serviceResult[r] = "raised"
        /\ sessionsOpened[r] = 1
        /\ ~sessionOpen[r]

\* C6: whenever create_communication_with_opportunities raises to its caller,
\* storage holds nothing of that run, a failing refresh() after the commit
\* included.
C6_FailureStoresNothing ==
    \A r \in Runs : serviceResult[r] = "raised" => NothingStored(r)

\* one call per attempt, never more than 3, and 3 when every attempt failed
C7_CallsInv ==
    \A r \in Runs :
        /\ calls[r] <= 3
        /\ calls[r] = attempt[r]
        /\ failedAt[r].step = "analyze" => calls[r] = 3

\* C7: a run issues at most 3 inference calls, exactly 3 when every attempt
\* fails, one per attempt, and none after the attempt that succeeds.
C7_AtMostThreeCalls ==
    /\ []C7_CallsInv
    /\ [][\A r \in Runs :
            pc[r] \in {"commit", "refresh", "done"} => calls'[r] = calls[r]]_vars

C7_Witness ==
    \E r \in Runs :
        /\ failedAt[r].step = "analyze"
        /\ calls[r] = 3
        /\ Len(waits[r]) = 2

\* C8: when all 3 attempts fail, the error that reaches the caller of
\* analyze_communication is an AIServiceError and the mutation answers
\* "Failed to analyze communication".
C8_ExhaustionIsAIServiceError ==
    \A r \in Runs :
        failedAt[r].step = "analyze"
        => /\ analyzeError[r] = "AIServiceError"
           /\ outcome[r] = "Failed to analyze communication"

\* C9 as claimed: the wait before the n-th retry is min(2 * 2^(n-1), 10), so
\* the two waits of a run are 2 then 4.
C9_WaitsDouble ==
    \A r \in Runs :
        \A n \in 1..Len(waits[r]) : waits[r][n] = Min(2 * Pow(2, n - 1), 10)

\* C9 as amended: the wait before the n-th retry is max(2, min(2^(n-1), 10)),
\* never below 2 nor above 10, so the two waits of a run are 2 then 2.
C9_WaitsClamped ==
    \A r \in Runs :
        /\ \A n \in 1..Len(waits[r]) :
              /\ waits[r][n] = Max(2, Min(Pow(2, n - 1), 10))
              /\ waits[r][n] >= 2 /\ waits[r][n] <= 10
        /\ waits[r] \in {<<>>, <<2>>, <<2, 2>>}

C9_Witness ==
    \E r \in Runs : Len(waits[r]) = 2 /\ pc[r] = "backoff"

\* C10: a candidate the validator cannot accept (unknown category, confidence
\* out of range, non-numeric or null, type, title or description missing,
\* empty, null or not a string) never aborts the batch: the validator returns
\* normally, with every valid candidate of the batch.
C10_InvalidNeverAborts ==
    (vDone /\ \A i \in 1..Len(vRaw) : vRaw[i].isdict) =>
        /\ ~vOut.raised
        /\ Len(vOut.validated) =
              Cardinality({ i \in 1..Len(vRaw) : ValidateOne(vRaw[i]).res = "emit" })

\* the broadcast calls that have been made
Started == { b \in Broadcasts : bpc[b] # "idle" }

\* the stored opportunities of run r whose confidence is 70 or more
Eligible(r) == { o \in OppsOf(r) : FloatGe(o.confidence, Float(NOTIFY_CONFIDENCE)) }

\* C11: once a run has persisted its rows and answered, one notification has
\* been broadcast for each of its persisted opportunities with confidence of
\* 70 or more, and none for the others.
C11_EligibleAreBroadcast ==
    (\A r \in SingleRuns : pc[r] = "done")
    => Cardinality(Started) = Cardinality(UNION { Eligible(r) : r \in SingleRuns })

\* C12: should_notify is true exactly when the confidence is 70 or more, 70
\* included, and create_notification_message returns the encoded bytes
\* exactly then and None otherwise, whatever the other fields are.
C12_NotifyIffSeventy ==
    /\ should_notify(nOpp) <=> nOpp.confidence >= 70 * 100
    /\ npc # "drawn" =>
        IF nOpp.confidence >= 70 * 100
        THEN nMessage = Bytes(create_opportunity_notification(nOpp, nClient, nNow))
        ELSE nMessage = None

C12_Witness ==
    /\ npc = "decided"
    /\ nOpp.confidence = 70 * 100
    /\ nMessage.kind = "bytes"

\* every candidate of the batch is an object whose confidence is a number
\* below 40
AllBelowMinimum(batch) ==
    /\ batch # <<>>
    /\ \A i \in 1..Len(batch) :
        /\ batch[i].isdict
        /\ batch[i].confidence.k = "num"
        /\ batch[i].confidence.n < 40

C14_Returned ==
    \A b \in Broadcasts :
        /\ bpc[b] # "raised"
        /\ bpc[b] = "returned" =>
            \A h \in snapshot[b] :
                /\ sends[b][h] = 1
                /\ h \notin disconnected[b] => h \in delivered[b]

C14_FailedAreRemoved ==
    \A b \in Broadcasts :
        (bpc[b] # "returned" /\ bpc'[b] = "returned")
        => \A h \in disconnected'[b] : active_connections'[h] = 0

\* C14: a broadcast never raises; when it returns, every subscriber that was
\* registered when it started and whose send did not fail has received
\* exactly one copy, and every subscriber whose send failed is absent from the
\* registry.
C14_BroadcastIsolation == []C14_Returned /\ [][C14_FailedAreRemoved]_vars

C14_Witness ==
    \E b \in Broadcasts :
        /\ bpc[b] = "returned"
        /\ Cardinality(snapshot[b]) = 3
        /\ Cardinality(disconnected[b]) = 1
        /\ Cardinality(delivered[b]) = 2

\* C15: once a send to a subscriber has failed, no broadcast, the same one or
\* another one running concurrently or later, calls send_bytes on that
\* subscriber again.
C15_NoSendAfterFailure ==
    [][\A b \in Broadcasts : \A h \in Handles :
           sends'[b][h] > sends[b][h] => h \notin failedSend]_vars

\* C16: a broadcast call calls send_bytes at most once on any handle.
C16_AtMostOnce ==
    \A b \in Broadcasts : \A h \in Handles : sends[b][h] <= 1

C16_Witness ==
    \E b \in Broadcasts :
        /\ bpc[b] = "returned"
        /\ snapshot[b] = Handles
        /\ delivered[b] = Handles

\* C17: a broadcast calls send_bytes only on handles that were registered
\* when it started: a subscriber whose connect completes later, even while
\* the broadcast is suspended in a send, is never sent its message.
C17_LateSubscriberNotSent ==
    \A b \in Broadcasts : \A h \in Handles :
        sends[b][h] > 0 => h \in snapshot[b]

C17_Witness ==
    \E b \in Broadcasts : \E h \in Handles :
        /\ bpc[b] = "sending"
        /\ Members(todo[b]) = {}
        /\ h \notin snapshot[b]
        /\ active_connections[h] > 0
        /\ sends[b][h] = 0

C18_NoDuplicates ==
    /\ \A h \in Handles : active_connections[h] <= 1
    /\ SetLen(active_connections) = Cardinality(Members(active_connections))

C18_AddAgainChangesNothing ==
    \A h \in Handles :
        (connects'[h] > connects[h] /\ active_connections[h] > 0)
        => active_connections' = active_connections

\* C18: the registry never holds a handle more than once, its count is the
\* number of its members, and registering a handle that is a member leaves
\* the membership and the count as they were.
C18_RegistrationIdempotent ==
    []C18_NoDuplicates /\ [][C18_AddAgainChangesNothing]_vars

C18_Witness ==
    \E h \in Handles :
        /\ connects[h] = 2
        /\ active_connections[h] = 1

C19_NoError ==
    /\ \A h \in Handles : endpoint[h] # "crashed"
    /\ \A b \in Broadcasts :
        bpc[b] = "returned" => \A h \in disconnected[b] : h \in snapshot[b]

C19_RemovesOnlyItsHandle ==
    /\ \A h \in Handles :
        (endpoint[h] = "open" /\ endpoint'[h] # "open")
        => /\ endpoint'[h] = "closed"
           /\ active_connections' = [active_connections EXCEPT ![h] = 0]
    /\ \A h \in Handles :
        active_connections'[h] < active_connections[h]
        => \/ endpoint[h] = "open" /\ endpoint'[h] # "open"
           \/ \E b \in Broadcasts :
                /\ bpc[b] = "sending"
                /\ bpc'[b] # "sending"
                /\ h \in disconnected'[b]

\* C19: disconnect(handle) removes the handle when it is a member and does
\* nothing, without an error, when it is not; calling it again changes
\* nothing; it never removes another handle.
C19_DisconnectIdempotent == []C19_NoError /\ [][C19_RemovesOnlyItsHandle]_vars

C19_Witness ==
    \E h \in Handles : \E b \in Broadcasts :
        /\ endpoint[h] = "closed"
        /\ bpc[b] = "returned"
        /\ h \in disconnected[b]
        /\ active_connections[h] = 0

\* the fields of the round trip other than the confidence
C20_OtherFields ==
    /\ nParsed.opportunity_id = Str(nOpp.id)
    /\ nParsed.title = nOpp.title
    /\ nParsed.type = nOpp.opportunity_type
    /\ nParsed.client_name = nClient
    /\ nParsed.description = nOpp.description

\* C20 as claimed: parsing the encoded notification of o gives back str(o.id),
\* the title, the category name, the client name, the description, and a
\* confidence equal to o.confidence.
C20_RoundTripExact ==
    (npc = "parsed" /\ nOpp.opportunity_type # "OTHER") =>
        /\ C20_OtherFields
        /\ SameNumber(nOpp.confidence, nParsed.confidence)

\* C20 as amended: the confidence that comes back is the float32 nearest to
\* o.confidence, equal to it when o.confidence is a multiple of 0.25; the
\* other fields come back as they were.
C20_RoundTripNearest ==
    (npc = "parsed" /\ nOpp.opportunity_type # "OTHER") =>
        /\ C20_OtherFields
        /\ NearestFloat32(nOpp.confidence, nParsed.confidence)
        /\ nOpp.confidence % 25 = 0
            => SameNumber(nOpp.confidence, nParsed.confidence)

C20_Witness ==
    /\ npc = "parsed"
    /\ nOpp.opportunity_type = "LITIGATION"
    /\ nOpp.confidence = 8555
    /\ ~SameNumber(nOpp.confidence, nParsed.confidence)
    /\ NearestFloat32(nOpp.confidence, nParsed.confidence)

\* C21: parsing an encoded message whose type ordinal is outside the
\* enumeration does not fail and gives a record whose type is UNKNOWN.
C21_UnknownOrdinalDecodes ==
    npc = "parsed_foreign" =>
        /\ "raised" \notin DOMAIN nParsed
        /\ nParsed.type = "UNKNOWN"

\* C22: the encoder puts on the wire the ordinal of the enumeration value
\* named as the stored category, distinct ordinals for distinct categories,
\* and the UNKNOWN ordinal for a category that is none of the five.
C22_CategoryOrdinals ==
    /\ npc \in {"encoded", "parsed"} =>
        /\ FieldOf(nWire, 3, 0) =
              ProtoOrdinal(IF nOpp.opportunity_type = "OTHER" THEN "UNKNOWN"
                           ELSE nOpp.opportunity_type)
        /\ FieldOf(nWire, 1, <<>>) = Str(nOpp.id)
    /\ \A a, b \in ProtoNames : ProtoOrdinal(a) = ProtoOrdinal(b) => a = b

C22_Witness ==
    /\ npc = "parsed"
    /\ nOpp.opportunity_type = "OTHER"
    /\ nParsed.type = "UNKNOWN"

\* C23: with a missing or placeholder key no request is accepted and processed
\* up to the credential check: no session is acquired for it and no request
\* ends at that check.
C23_NoRequestReachesCredentialCheck ==
    KeyRejected(api_key) =>
        \A r \in Runs : sessionsOpened[r] = 0 /\ failedAt[r].step # "credentials"

\* the commit() of run r has returned
HasCommitted(r) ==
    \/ pc[r] = "refresh"
    \/ pc[r] = "done" /\ failedAt[r].step \in {"none", "refresh"}

C24_CommittedRowsStay ==
    \A r \in Runs : HasCommitted(r) =>
        /\ CommsOf(r) = {CommRow(r, request[r])}
        /\ OppsOf(r) = Range(Opportunities(r, extracted[r]))

C24_NoRowRemoved == dbComms \subseteq dbComms' /\ dbOpps \subseteq dbOpps'

\* C24: once a run has committed, its communication and opportunity rows stay
\* in storage as committed through every later step of the run, failing or
\* not; no step removes or alters a stored row.
C24_CommitIsDurable == []C24_CommittedRowsStay /\ [][C24_NoRowRemoved]_vars

C24_Witness ==
    \E r \in Runs :
        /\ pc[r] = "done"
        /\ failedAt[r].step = "refresh"
        /\ failedAt[r].k >= 1
        /\ CommsOf(r) # {}
        /\ Cardinality(OppsOf(r)) >= 2

\* C27: until the inference call of a run has returned successfully the run
\* has issued no storage operation and holds no transaction open.
C27_NoStorageBeforeInference ==
    \A r \in Runs :
        pc[r] \in {"flush", "inference", "backoff"} =>
            /\ storageOps[r] = 0
            /\ pendingComm[r] = "none"
            /\ ~sessionOpen[r]

\* the category token as the rule is worded: lower-cased, every '&' and every
\* space removed, "ma" read as the mergers-and-acquisitions token
StrippedToken(s) ==
    LET t == Remove(Remove(Lower(s), "&"), " ")
    IN IF t = <<"m","a">> THEN T_MA ELSE t

\* C28: a candidate that is well-formed in every other field is emitted
\* exactly when its category string, lower-cased and with every '&' and
\* every space removed and "ma" mapped, is one of the five tokens.
C28_CategoryAcceptedIffStrippedToken ==
    \A t \in RawTypes :
        (vDone /\ t.k = "str" /\ vRaw = <<Cand(t, JNum(85), TitleT, DescD, Missing)>>)
        => /\ ~vOut.raised
           /\ Len(vOut.validated) = 1 <=> StrippedToken(t.s) \in valid_types

\* no connect is suspended in accept() and no broadcast is inside its loop
Quiescent ==
    /\ \A h \in Handles : ~connecting[h]
    /\ \A b \in Broadcasts : bpc[b] # "sending"

\* the handles whose endpoint is in its receive loop and that failed no send
LiveHandles == { h \in Handles : endpoint[h] = "open" /\ h \notin failedSend }

\* C29: in every interleaving a handle is a member only after its accept()
\* returned, a live handle that failed no send and was not disconnected is a
\* member, and when no connect and no broadcast is in flight the registry is
\* exactly the set of accepted handles that neither disconnected nor failed
\* a send.
C29_MembershipNeverCorrupted ==
    /\ \A h \in Handles : active_connections[h] > 0 => connects[h] >= 1
    /\ \A h \in LiveHandles : active_connections[h] > 0
    /\ Quiescent => Members(active_connections) = LiveHandles

C29_Witness ==
    /\ Quiescent
    /\ \E b \in Broadcasts : bpc[b] = "returned" /\ disconnected[b] # {}
    /\ \E h \in Handles : endpoint[h] = "closed"
    /\ \E h \in Handles : endpoint[h] = "open" /\ h \in failedSend
    /\ LiveHandles # {}
    /\ Reconnects >= 1

\* every request either has its own rows in storage, exactly those of its own
\* extraction, or none; it acquires one session at most
C30_OwnRows ==
    \A r \in Runs :
        /\ sessionsOpened[r] <= 1
        /\ IF HasCommitted(r)
           THEN /\ CommsOf(r) = {CommRow(r, request[r])}
                /\ OppsOf(r) = Range(Opportunities(r, extracted[r]))
                /\ Cardinality(OppsOf(r)) = Len(extracted[r])
           ELSE NothingStored(r)
        /\ pc[r] = "commit" =>
            /\ pendingComm[r] = "flushed"
            /\ pendingOpps[r] = Opportunities(r, extracted[r])

\* a step leaves alone the session, the pending rows and the stored rows of
\* every request that is not the one taking it
C30_OthersUntouched ==
    \A q \in Runs :
        (pc'[q] = pc[q] /\ storageOps'[q] = storageOps[q])
        => /\ sessionOpen'[q] = sessionOpen[q]
           /\ pendingComm'[q] = pendingComm[q]
           /\ pendingOpps'[q] = pendingOpps[q]
           /\ extracted'[q] = extracted[q]
           /\ { c \in dbComms' : c.id = q } = CommsOf(q)
           /\ { o \in dbOpps' : o.communication_id = q } = OppsOf(q)

\* C30: requests in flight together are independent: each has its own
\* session, a failure and rollback of one neither removes nor prevents the
\* commit of another's rows, and a committed communication owns exactly the
\* opportunities of its own extraction.
C30_RunsIndependent == []C30_OwnRows /\ [][C30_OthersUntouched]_vars

C30_Witness ==
    \E r, q \in Runs :
        /\ pc[r] = "done" /\ failedAt[r].step = "analyze" /\ NothingStored(r)
        /\ pc[q] = "done" /\ outcome[q] = "payload"
        /\ calls[q] > 1
        /\ Cardinality(OppsOf(q)) >= 2

\* the stored opportunities the filters of the query let through
MatchingRows ==
    { o \in dbOpps :
        /\ qArgs.min_confidence.given =>
            (o.confidence.nan \/ o.confidence.v >= qArgs.min_confidence.v)
        /\ qArgs.type.given => o.opportunity_type = qArgs.type.v }

\* what a returned connection satisfies, whatever is committed meanwhile
C25_PageInfo ==
    qpc = "returned" =>
        /\ Len(qRes.edges) <= qArgs.limit
        /\ \A i \in 1..Len(qRes.edges) : qRes.edges[i] \in MatchingRows
        /\ \A i, j \in 1..Len(qRes.edges) : qRes.edges[i] = qRes.edges[j] => i = j
        /\ qRes.has_prev <=> qArgs.offset > 0
        /\ qRes.has_next <=> qArgs.offset + qArgs.limit < qRes.total_count

\* C25 as stated: on empty storage both flags are false, for every offset
C25_EmptyStorageBothFlagsFalse ==
    /\ C25_PageInfo
    /\ (qpc = "returned" /\ dbOpps = {}) =>
        /\ qRes.total_count = 0
        /\ qRes.edges = <<>>
        /\ ~qRes.has_next
        /\ ~qRes.has_prev

C25_EmptyStorage ==
    (qpc = "returned" /\ dbOpps = {}) =>
        /\ qRes.total_count = 0
        /\ qRes.edges = <<>>
        /\ ~qRes.has_next
        /\ qRes.has_prev <=> qArgs.offset > 0

\* each statement answers for the rows stored when it runs
C25_Statements ==
    /\ (qpc = "count" /\ qpc' = "page") =>
        qRes'.total_count = Cardinality(MatchingRows)
    /\ (qpc = "page" /\ qpc' = "returned") =>
        Len(qRes'.edges) =
            Min(qArgs.limit, Max(0, Cardinality(MatchingRows) - qArgs.offset))

\* C25: a query with limit L >= 0 and offset O >= 0 returns totalCount = N,
\* the number of stored opportunities matching the filters when it counts, at
\* most L edges (min(L, max(0, N - O)) of the matching rows), hasPreviousPage
\* iff O > 0 and hasNextPage iff O + L < N; on empty storage it returns
\* totalCount 0, no edges, hasNextPage false and hasPreviousPage iff O > 0.
C25_Pagination ==
    []C25_PageInfo /\ []C25_EmptyStorage /\ [][C25_Statements]_vars

C25_Witness ==
    /\ qpc = "returned"
    /\ qArgs.limit = MAX_OPPORTUNITIES
    /\ qArgs.offset = 1
    /\ qRes.total_count = MAX_OPPORTUNITIES + 1
    /\ Len(qRes.edges) = MAX_OPPORTUNITIES
    /\ qRes.has_prev
    /\ ~qRes.has_next

RECURSIVE SumCounts(_)
SumCounts(entries) ==
    IF entries = {} THEN 0
    ELSE LET e == CHOOSE x \in entries : TRUE
         IN e.count + SumCounts(entries \ {e})

\* C26: the statistics returned are those of one storage state: the
\* high-confidence count is at most the total count, byType has one entry
\* with a positive count for each category present and its counts sum to the
\* total count; on empty storage they are 0, 0 and the empty list.
C26_StatsOfOneState ==
    qpc = "stats_returned" =>
        /\ qRes.high_confidence_count <= qRes.total_count
        /\ SumCounts(qRes.by_type) = qRes.total_count
        /\ \A e \in qRes.by_type : e.count > 0
        /\ \A e, f \in qRes.by_type : e.type = f.type => e = f
        /\ dbOpps = {} =>
            /\ qRes.total_count = 0
            /\ qRes.high_confidence_count = 0
            /\ qRes.by_type = {}

\* the candidate has a title or a description that is missing, null or empty
LacksRequired(opp) ==
    \/ opp.title.k \in {"missing", "null"}
    \/ opp.title.k = "str" /\ opp.title.s = <<>>
    \/ opp.description.k \in {"missing", "null"}
    \/ opp.description.k = "str" /\ opp.description.s = <<>>

\* the record comes from that candidate with the title cut to 200 characters
TitleAndDescriptionOf(rec, opp) ==
    /\ opp.isdict
    /\ ~LacksRequired(opp)
    /\ opp.title.k = "str"
    /\ Len(rec.title) = (IF Len(opp.title.s) < 200 THEN Len(opp.title.s) ELSE 200)
    /\ \A j \in 1..Len(rec.title) : rec.title[j] = opp.title.s[j]
    /\ rec.description = opp.description

\* C32: every emitted record has a non-empty description and a non-empty
\* title, the first min(200, length) characters of its candidate's title; a
\* candidate whose title or description is missing or empty is not emitted.
C32_TitleAndDescription ==
    vDone =>
        /\ \A k \in 1..Len(vOut.validated) :
            /\ vOut.validated[k].title # <<>>
            /\ vOut.validated[k].description.k \notin {"missing", "null"}
            /\ vOut.validated[k].description # JStr(<<>>)
            /\ \E i \in 1..Len(vRaw) :
                TitleAndDescriptionOf(vOut.validated[k], vRaw[i])
        /\ Len(vOut.validated) <=
            Cardinality({ i \in 1..Len(vRaw) :
                            vRaw[i].isdict /\ ~LacksRequired(vRaw[i]) })

C32_Witness ==
    /\ vDone
    /\ Len(vRaw) = 2
    /\ vRaw[1].title = LongTitle
    /\ LacksRequired(vRaw[2])
    /\ Len(vOut.validated) = 1
    /\ Len(vOut.validated[1].title) = MAX_TITLE_LEN

\* C33: the excerpt of every emitted record is the candidate's own excerpt
\* when it supplies one and its description otherwise, also when the
\* extracted_text key is present and null: it is never null.
C33_ExcerptNeverNull ==
    vDone =>
        \A k \in 1..Len(vOut.validated) :
            /\ vOut.validated[k].extracted_text.k # "null"
            /\ \E i \in 1..Len(vRaw) :
                /\ vRaw[i].isdict
                /\ vOut.validated[k].extracted_text =
                     (IF vRaw[i].extracted_text.k \in {"missing", "null"}
                      THEN vRaw[i].description
                      ELSE vRaw[i].extracted_text)

\* the stages of a request in their order; the retry cycle is one stage
Stage(p) ==
    CASE p = "received" -> 0
      [] p = "flush" -> 1
      [] p \in {"inference", "backoff"} -> 2
      [] p = "commit" -> 3
      [] p = "refresh" -> 4
      [] p = "done" -> 5

C31_Bounded ==
    \A r \in Runs :
        /\ attempt[r] <= 3
        /\ calls[r] <= 3
        /\ Len(waits[r]) <= 2
        /\ pc[r] = "done" =>
            \/ outcome[r] = "payload" /\ CommsOf(r) # {}
            \/ outcome[r] # "payload" /\ failedAt[r] # NoFailure

C31_NeverBack == \A r \in Runs : Stage(pc'[r]) >= Stage(pc[r])

\* C31: when every awaited call returns or fails, a request that has passed
\* the input checks ends, committed or failed, after at most 3 inference
\* attempts and without going back to an earlier stage.
C31_Terminates ==
    /\ \A r \in SingleRuns : (pc[r] # "received") ~> (pc[r] = "done")
    /\ []C31_Bounded
    /\ [][C31_NeverBack]_vars

C31_Witness ==
    \E r \in Runs :
        /\ pc[r] = "done"
        /\ outcome[r] = "payload"
        /\ calls[r] = 3
        /\ waits[r] = <<2, 2>>
        /\ refreshed[r] >= 3

C36_SendOnlyToMembers ==
    [][\A b \in Broadcasts : \A h \in Handles :
        sends'[b][h] > sends[b][h] => active_connections[h] > 0]_vars

\* on every socket, send_text("pong") was called once per "ping" received
C34_OnePongPerPing == \A h \in Handles : pongs[h] = pings[h]

\* a step that receives a text on h sends no bytes, starts and advances no
\* broadcast, and calls send_text on no other socket; send_text is called in
\* no other step
C34_TextStep ==
    /\ \A h \in Handles :
        received'[h] > received[h] =>
            /\ sends' = sends
            /\ delivered' = delivered
            /\ bpc' = bpc
            /\ pongs'[h] - pongs[h] = pings'[h] - pings[h]
            /\ \A g \in Handles \ {h} : pongs'[g] = pongs[g]
    /\ pongs' # pongs => received' # received

\* C34: each "ping" text received is answered by exactly one text "pong" on the
\* same socket, any other text by nothing; receiving a text sends no bytes
\* message and triggers no broadcast.
C34_Heartbeat == []C34_OnePongPerPing /\ [][C34_TextStep]_vars

\* a socket received a "ping" and another text, answered once, while a
\* broadcast is sending
C34_Witness ==
    \E h \in Handles :
        /\ received[h] = 2
        /\ pings[h] = 1
        /\ pongs[h] = 1
        /\ ~ponging[h]
        /\ \E b \in Broadcasts : bpc[b] = "sending"

============================================================================
